---- MODULE Spec2Model ----
(***************************************************************************)
(* A model of the Twitter client of hiryuzu/eliza-hiryuzu:                 *)
(*   - RequestQueue            (base client, lines 52-100)                 *)
(*   - TwitterInteractionClient (interactions.ts): the polling cycle,      *)
(*     processTweetIfNeeded, handleTweet, buildConversationThread          *)
(*   - the watermark lastCheckedTweetId and its cache entry                *)
(*   - ClientBase: its instances with their API client and RequestQueue,   *)
(*     getTweet with the tweet cache, fetchSearchTweets and sendTweet      *)
(* Each component has its own specification over the shared variables;     *)
(* the variables of the other components stay at their initial values.     *)
(***************************************************************************)
EXTENDS Integers, Sequences, FiniteSets, TLC

(***************************************************************************)
(* Bounds of the model.                                                    *)
(***************************************************************************)
\* number of operations that callers submit to the RequestQueue
MaxOps == 3
\* number of failing attempts of operations over one run of the queue
MaxFails == 2
\* number of polling cycles that are started
MaxCycles == 2
\* number of crashes of the process
MaxCrashes == 1
\* largest maxReplies and number of calls when buildConversationThread is called directly
MaxRepliesArg == 3
MaxBuilds == 2
\* largest length of a list handed to mergeTweetCandidates directly
MaxLen == 2
\* number of ClientBase objects constructed, number of calls of their methods
MaxInstances == 2
MaxCalls == 2

Ops == 1..MaxOps
NoOp == 0

Min(S) == CHOOSE x \in S : \A y \in S : x <= y

VARIABLES
    \* ---- RequestQueue (base client 52-100) ----
    queue,       \* RequestQueue.queue: the wrappers, each named by its operation
    processing,  \* RequestQueue.processing
    pqPc,        \* per add() call: where the processQueue() call it made stands
    pqRequest,   \* per processQueue() call: its local `request`
    promise,     \* per operation: state of the promise add() returned
    events,      \* history: submissions, starts and outcomes of attempts, in order
    waits,       \* history: the delays of the exponentialBackoff calls (ms), in order
    jitter,      \* the delay (ms) of the randomDelay timer that is running (0: none)
    sinceStart,  \* ms of finished timers since the last operation was started
    lastGap,     \* history: ms of finished timers between the last two starts
    \* ---- the world: tweets as the API returns them ----
    replyTo,     \* per tweet id: its inReplyToStatusId (NoId when it is no reply)
    quiet,       \* ids of the tweets written by the agent itself or without text
    fetchable,   \* ids of the tweets that getTweet returns (from the cache or the API)
    \* ---- ClientBase and the runtime's stores ----
    lastCheckedTweetId,  \* ClientBase.lastCheckedTweetId (bigint | null)
    cachedWatermark,     \* cache entry twitter/<user>/latest_checked_tweet_id
    memories,            \* ids of the tweets that have a durable memory record
    pendingWrites,       \* per id: createMemory calls issued and not yet settled
    createIssued,        \* history: per id, how many createMemory calls were issued
    \* ---- TwitterInteractionClient: one polling cycle ----
    cyclePc,     \* where handleLoop / handleTwitterInteractions stands
    candidates,  \* allCandidates of the cycle
    idx,         \* position of the for loop of line 118 in candidates
    cycles,      \* history: number of cycles started
    crashes,     \* history: number of crashes of the process
    respLog,     \* history: candidates handed to handleTweet, returns, crashes
    fetchFailed, \* history of the cycle: the queries whose search failed
    cycleError,  \* the error caught at line 126 in the last cycle ("none": none)
    polling,     \* number of handleTwitterInteractions calls in progress
    startWatermark,  \* history: lastCheckedTweetId when the cycle started
    cutShort,    \* history: candidates whose processing an error ended, not handed since
    \* ---- buildConversationThread ----
    btPc,        \* "idle", "call" (a processThread call is due), "done", "thrown"
    btLeaf,      \* the tweet buildConversationThread was called for
    btCur,       \* currentTweet of the processThread call that is due
    btDepth,     \* depth of that call
    btMax,       \* maxReplies
    thread,      \* thread (ids, first element first)
    visited,     \* visited
    builds,      \* history: number of buildConversationThread calls made directly
    \* ---- mergeTweetCandidates called directly ----
    mentions,          \* its argument mentions
    targetTweets,      \* its argument targetTweets
    uniqueCandidates,  \* the list it returned
    mergePc,           \* "idle", "returned"
    \* ---- ClientBase: instances, their RequestQueue objects, calls of the API ----
    twitterClients,  \* ClientBase._twitterClients: per username the API client (NoClient: none)
    instances,       \* the ClientBase objects constructed, in order
    rqQueue,         \* per RequestQueue object: its queue (calls by number)
    rqProcessing,    \* per RequestQueue object: its processing flag
    rqPc,            \* per RequestQueue object: where its drain loop stands
    rqRequest,       \* per RequestQueue object: `request` of the drain loop
    calls,           \* the calls of getTweet, fetchSearchTweets, sendTweet made, in order
    tweetCache,      \* ids with a cache entry twitter/tweets/<id>
    cacheSets        \* per id: cacheManager.set calls issued and not yet settled

queueVars == <<queue, processing, pqPc, pqRequest, promise, events, waits,
              jitter, sinceStart, lastGap>>
worldVars == <<replyTo, quiet, fetchable>>
storeVars == <<lastCheckedTweetId, cachedWatermark, memories, pendingWrites, createIssued>>
cycleVars == <<cyclePc, candidates, idx, cycles, crashes, respLog>>
threadVars == <<btPc, btLeaf, btCur, btDepth, btMax, thread, visited, builds>>
mergeVars == <<mentions, targetTweets, uniqueCandidates, mergePc>>
fetchVars == <<fetchFailed, cycleError, polling, startWatermark, cutShort>>
clientVars == <<twitterClients, instances, rqQueue, rqProcessing, rqPc, rqRequest,
                calls, tweetCache, cacheSets>>

vars == <<queue, processing, pqPc, pqRequest, promise, events, waits,
          jitter, sinceStart, lastGap,
          replyTo, quiet, fetchable,
          lastCheckedTweetId, cachedWatermark, memories, pendingWrites, createIssued,
          cyclePc, candidates, idx, cycles, crashes, respLog,
          btPc, btLeaf, btCur, btDepth, btMax, thread, visited, builds,
          mentions, targetTweets, uniqueCandidates, mergePc,
          fetchFailed, cycleError, polling, startWatermark, cutShort,
          twitterClients, instances, rqQueue, rqProcessing, rqPc, rqRequest,
          calls, tweetCache, cacheSets>>

(***************************************************************************)
(* RequestQueue                                                            *)
(***************************************************************************)
Ev(k, o) == [k |-> k, op |-> o]

\* mutant of Enqueue: the wrapper is put at the front of the queue
Enqueue_front(q, o) == <<o>> \o q
\* add(), line 58: this.queue.push(wrapper)
Enqueue(q, o) == Append(q, o)

\* mutant of ProcessQueueReturnsEarly: the `processing` flag is not consulted
ProcessQueueReturnsEarly_noflag(flag, q) == Len(q) = 0
\* processQueue(), line 71: if (this.processing || this.queue.length === 0) return
ProcessQueueReturnsEarly(flag, q) == flag \/ Len(q) = 0

\* The wrapper that add() queues (lines 58-65) awaits the operation inside
\* try/catch; its catch block calls reject(error) and does not rethrow, so the
\* promise of the wrapper is fulfilled whether the operation failed or not.
WrapperRejects(operationFailed) == FALSE

\* exponentialBackoff(retryCount), line 92, in milliseconds
RECURSIVE Pow2(_)
Pow2(n) == IF n = 0 THEN 1 ELSE 2 * Pow2(n - 1)
ExponentialBackoffDelay(retryCount) == Pow2(retryCount) * 1000

\* Math.random() (line 97): a number in [0, 1), in millionths; the samples are
\* its least and its greatest value
RandomScale == 1000000
RandomSamples == {0, 999999}
\* mutant of RandomDelayMs: the offset of 1500 is left out
RandomDelayMs_noOffset(r) == (r * 2000) \div RandomScale
\* randomDelay, line 97: Math.floor(Math.random() * 2000) + 1500, in milliseconds
RandomDelayMs(r) == ((r * 2000) \div RandomScale) + 1500
\* lastGap when fewer than two operations were started
NoGap == -1
\* some operation was started before
SomeStarted == \E i \in 1..Len(events) : events[i].k = "start"

\* the operations whose attempt is in flight: started at line 79, not yet settled
Executing == { pqRequest[d] : d \in { x \in Ops : pqPc[x] = "awaitRequest" } }

QueueInit ==
    /\ queue = <<>>
    /\ processing = FALSE
    /\ pqPc = [o \in Ops |-> "notCalled"]
    /\ pqRequest = [o \in Ops |-> NoOp]
    /\ promise = [o \in Ops |-> "unsubmitted"]
    /\ events = <<>>
    /\ waits = <<>>
    /\ jitter = 0
    /\ sinceStart = 0
    /\ lastGap = NoGap

\* add(request), lines 56-68, with the synchronous part of the processQueue()
\* call it makes (lines 70-79: guard, processing = true, shift, request()).
Add(o) ==
    /\ promise[o] = "unsubmitted"
    /\ promise' = [promise EXCEPT ![o] = "pending"]
    /\ LET q1 == Enqueue(queue, o)
           ev1 == Append(events, Ev("add", o))
       IN IF ProcessQueueReturnsEarly(processing, q1)
          THEN /\ queue' = q1
               /\ pqPc' = [pqPc EXCEPT ![o] = "returned"]
               /\ events' = ev1
               /\ UNCHANGED <<processing, pqRequest, sinceStart, lastGap>>
          ELSE /\ processing' = TRUE
               /\ queue' = Tail(q1)
               /\ pqRequest' = [pqRequest EXCEPT ![o] = Head(q1)]
               /\ pqPc' = [pqPc EXCEPT ![o] = "awaitRequest"]
               /\ events' = Append(ev1, Ev("start", Head(q1)))
               /\ lastGap' = IF SomeStarted THEN sinceStart ELSE lastGap
               /\ sinceStart' = 0
    /\ UNCHANGED <<waits, jitter>>
    /\ UNCHANGED <<worldVars, storeVars, cycleVars, threadVars, mergeVars, clientVars, fetchVars>>

\* The wrapper settles: the operation returned (ok) or threw (~ok).  Lines 59-64
\* settle the caller's promise; lines 78-85 of processQueue then either reach
\* randomDelay() or, when the wrapper's promise rejected, unshift and back off.
RequestSettles(d, ok) ==
    /\ pqPc[d] = "awaitRequest"
    /\ LET o == pqRequest[d]
       IN /\ promise' = [promise EXCEPT ![o] =
                            IF promise[o] = "pending"
                            THEN (IF ok THEN "resolved" ELSE "rejected")
                            ELSE promise[o]]
          /\ events' = Append(events, Ev(IF ok THEN "ok" ELSE "fail", o))
          /\ IF WrapperRejects(~ok)
             THEN \* lines 82-83: unshift, exponentialBackoff(this.queue.length)
                  /\ queue' = <<o>> \o queue
                  /\ pqPc' = [pqPc EXCEPT ![d] = "backoff"]
                  /\ waits' = Append(waits, ExponentialBackoffDelay(Len(queue) + 1))
                  /\ UNCHANGED jitter
             ELSE \* line 85: randomDelay()
                  /\ queue' = queue
                  /\ pqPc' = [pqPc EXCEPT ![d] = "randomDelay"]
                  /\ \E r \in RandomSamples : jitter' = RandomDelayMs(r)
                  /\ UNCHANGED waits
    /\ UNCHANGED <<processing, pqRequest, sinceStart, lastGap>>
    /\ UNCHANGED <<worldVars, storeVars, cycleVars, threadVars, mergeVars, clientVars, fetchVars>>

RequestResolves(d) == RequestSettles(d, TRUE)

RequestRejects(d) ==
    /\ Cardinality({ i \in 1..Len(events) : events[i].k = "fail" }) < MaxFails
    /\ RequestSettles(d, FALSE)

\* mutant of DelayElapses: the loop test of line 76 is made before randomDelay,
\* so the drain loop ends after the delay without looking at the queue again
DelayElapses_testBeforeDelay(d) ==
    /\ pqPc[d] \in {"backoff", "randomDelay"}
    /\ IF pqPc[d] = "backoff"
       THEN /\ pqPc' = [pqPc EXCEPT ![d] = "randomDelay"]
            /\ sinceStart' = sinceStart + waits[Len(waits)]
            /\ \E r \in RandomSamples : jitter' = RandomDelayMs(r)
            /\ UNCHANGED <<queue, processing, pqRequest, events, lastGap>>
       ELSE /\ processing' = FALSE
            /\ pqPc' = [pqPc EXCEPT ![d] = "returned"]
            /\ sinceStart' = sinceStart + jitter
            /\ jitter' = 0
            /\ UNCHANGED <<queue, pqRequest, events, lastGap>>
    /\ UNCHANGED <<promise, waits>>
    /\ UNCHANGED <<worldVars, storeVars, cycleVars, threadVars, mergeVars, clientVars, fetchVars>>

\* A timer of the drain loop fires: the backoff of line 83 (then randomDelay,
\* line 85) or the randomDelay of line 85 (then the loop test of line 76: shift
\* and start the next wrapper, or leave the loop and clear `processing`, line 88).
DelayElapses(d) ==
    /\ pqPc[d] \in {"backoff", "randomDelay"}
    /\ IF pqPc[d] = "backoff"
       THEN /\ pqPc' = [pqPc EXCEPT ![d] = "randomDelay"]
            /\ sinceStart' = sinceStart + waits[Len(waits)]
            /\ \E r \in RandomSamples : jitter' = RandomDelayMs(r)
            /\ UNCHANGED <<queue, processing, pqRequest, events, lastGap>>
       ELSE IF Len(queue) > 0
            THEN /\ queue' = Tail(queue)
                 /\ pqRequest' = [pqRequest EXCEPT ![d] = Head(queue)]
                 /\ pqPc' = [pqPc EXCEPT ![d] = "awaitRequest"]
                 /\ events' = Append(events, Ev("start", Head(queue)))
                 /\ lastGap' = sinceStart + jitter
                 /\ sinceStart' = 0
                 /\ jitter' = 0
                 /\ UNCHANGED processing
            ELSE /\ processing' = FALSE
                 /\ pqPc' = [pqPc EXCEPT ![d] = "returned"]
                 /\ sinceStart' = sinceStart + jitter
                 /\ jitter' = 0
                 /\ UNCHANGED <<queue, pqRequest, events, lastGap>>
    /\ UNCHANGED <<promise, waits>>
    /\ UNCHANGED <<worldVars, storeVars, cycleVars, threadVars, mergeVars, clientVars, fetchVars>>

QueueNext ==
    \/ \E o \in Ops : Add(o)
    \/ \E d \in Ops : RequestResolves(d)
    \/ \E d \in Ops : RequestRejects(d)
    \/ \E d \in Ops : DelayElapses(d)

(***************************************************************************)
(* Tweet ids.  An id is a string of decimal digits (ProcessedTweet.id);    *)
(* the watermark is a bigint.  The ids of the model are "9", "10", "11":   *)
(* their numeric order and their order as strings differ.                  *)
(***************************************************************************)
TweetIds == { <<9>>, <<1, 0>>, <<1, 1>> }
\* an absent string: inReplyToStatusId undefined, a cache miss
NoId == <<>>
\* lastCheckedTweetId = null (base client, line 107)
Null == -1

\* BigInt(s) for a string of decimal digits (interactions.ts 176, 208; base 499)
RECURSIVE BigInt(_)
BigInt(s) ==
    IF s = <<>> THEN 0
    ELSE 10 * BigInt(SubSeq(s, 1, Len(s) - 1)) + s[Len(s)]

\* bigint.toString() (base client, line 507)
RECURSIVE BigIntToString(_)
BigIntToString(n) ==
    IF n < 10 THEN <<n>> ELSE BigIntToString(n \div 10) \o <<n % 10>>

\* a.localeCompare(b) for strings of digits: the order of the strings, character
\* by character, a proper prefix first (interactions.ts, line 169)
RECURSIVE LocaleCompare(_, _)
LocaleCompare(a, b) ==
    IF a = <<>> /\ b = <<>> THEN 0
    ELSE IF a = <<>> THEN -1
    ELSE IF b = <<>> THEN 1
    ELSE IF Head(a) < Head(b) THEN -1
    ELSE IF Head(a) > Head(b) THEN 1
    ELSE LocaleCompare(Tail(a), Tail(b))

\* the ProcessedTweet of an id, as far as the cycle reads it
Tweet(i) == [id |-> i]

(***************************************************************************)
(* mergeTweetCandidates (interactions.ts 162-173)                          *)
(***************************************************************************)
\* self.findIndex((t) => t.id === tweet.id): position of the first tweet with the id
FindIndex(self, id) == Min({ i \in 1..Len(self) : self[i].id = id })

\* mutant of FilterFirst: nothing is filtered out
FilterFirst_all(self, n) == SubSeq(self, 1, n)
\* .filter((tweet, index, self) => self.findIndex(...) === index), line 168
RECURSIVE FilterFirst(_, _)
FilterFirst(self, n) ==
    IF n = 0 THEN <<>>
    ELSE LET rest == FilterFirst(self, n - 1)
         IN IF FindIndex(self, self[n].id) = n THEN Append(rest, self[n]) ELSE rest

\* the comparator of the sort, line 169
CompareCandidates(a, b) == LocaleCompare(a.id, b.id)

\* insertion of t into a sorted sequence, behind the elements that compare equal
RECURSIVE InsertSorted(_, _)
InsertSorted(sorted, t) ==
    IF sorted = <<>> THEN <<t>>
    ELSE IF CompareCandidates(t, Head(sorted)) < 0 THEN <<t>> \o sorted
    ELSE <<Head(sorted)>> \o InsertSorted(Tail(sorted), t)

\* Array.prototype.sort with the comparator (a stable sort)
RECURSIVE SortCandidates(_)
SortCandidates(list) ==
    IF list = <<>> THEN <<>>
    ELSE InsertSorted(SortCandidates(SubSeq(list, 1, Len(list) - 1)), list[Len(list)])

MergeTweetCandidates(mentionList, targetList) ==
    LET allCandidates == mentionList \o targetList
    IN SortCandidates(FilterFirst(allCandidates, Len(allCandidates)))

\* mergeTweetCandidates(mentions, targetTweets) called and returned
MergeCall ==
    /\ mergePc = "idle"
    /\ uniqueCandidates' = MergeTweetCandidates(mentions, targetTweets)
    /\ mergePc' = "returned"
    /\ UNCHANGED <<mentions, targetTweets>>
    /\ UNCHANGED <<queueVars, worldVars, storeVars, cycleVars, threadVars, fetchVars, clientVars>>

(***************************************************************************)
(* The durable memory store (runtime.messageManager).  A createMemory call *)
(* that the code does not await settles at some later moment: the record   *)
(* becomes visible to getMemoryById, or the call fails and nobody sees it. *)
(***************************************************************************)
\* getMemoryById(stringToUuid(id + "-" + agentId)) returns a record
MemoryExists(id) == id \in memories

\* the stores after a createMemory call for the id was issued without await
IssueCreateMemory(id) ==
    /\ pendingWrites' = [pendingWrites EXCEPT ![id] = @ + 1]
    /\ createIssued' = [createIssued EXCEPT ![id] = @ + 1]

MemoryWriteCompletes(id) ==
    /\ pendingWrites[id] > 0
    /\ pendingWrites' = [pendingWrites EXCEPT ![id] = @ - 1]
    /\ memories' = memories \cup {id}
    /\ UNCHANGED <<lastCheckedTweetId, cachedWatermark, createIssued>>
    /\ UNCHANGED <<queueVars, worldVars, cycleVars, threadVars, mergeVars, clientVars, fetchVars>>

MemoryWriteFails(id) ==
    /\ pendingWrites[id] > 0
    /\ pendingWrites' = [pendingWrites EXCEPT ![id] = @ - 1]
    /\ UNCHANGED <<lastCheckedTweetId, cachedWatermark, memories, createIssued>>
    /\ UNCHANGED <<queueVars, worldVars, cycleVars, threadVars, mergeVars, clientVars, fetchVars>>

(***************************************************************************)
(* buildConversationThread (interactions.ts 415-546)                       *)
(***************************************************************************)
\* maxReplies at the call of line 193
DefaultMaxReplies == 10

\* Line 504 reads this.twitterClient; `this` is the TwitterInteractionClient
\* (bound at line 535), whose fields are client and runtime (lines 89-90), so
\* the member access on undefined throws inside the try of line 503.
ThisHasTwitterClient == FALSE

\* Line 513 calls processThread(parentTweet, depth + 1) as a plain function: in
\* the callee `this` is undefined, and line 440 (this.runtime) throws into the
\* catch of line 520 of the caller.
RecursiveCallHasThis == FALSE

\* mutant of DepthExhausted: the depth is not limited
DepthExhausted_never(depth, maxReplies) == FALSE
\* line 434: if (depth >= maxReplies) return
DepthExhausted(depth, maxReplies) == depth >= maxReplies

\* line 484: if (visited.has(currentTweet.id)) return
AlreadyVisited(id, seen) == id \in seen

\* mutant of ParentErrorCaught: the exception leaves processThread
ParentErrorCaught_rethrown == FALSE
\* Lines 503 and 520: the lookup of the parent and the call for it stand inside
\* try/catch, and the catch block only logs.
ParentErrorCaught == TRUE

\* lines 419-420 and 535: thread = [], visited = {}, processThread(tweet, 0)
StartThread(tweetId, maxReplies) ==
    /\ btPc' = "call"
    /\ btLeaf' = tweetId
    /\ btCur' = tweetId
    /\ btDepth' = 0
    /\ btMax' = maxReplies
    /\ thread' = <<>>
    /\ visited' = {}

\* mutant of ProcessThreadCall: the parent is fetched through the client and
\* the walk goes on to it, and the visited set is not consulted
ProcessThreadCall_walkUnguarded(parentFetched) ==
    /\ btPc = "call"
    /\ IF DepthExhausted(btDepth, btMax)
       THEN /\ btPc' = "done"
            /\ UNCHANGED <<btLeaf, btCur, btDepth, btMax, thread, visited>>
            /\ UNCHANGED <<pendingWrites, createIssued>>
       ELSE /\ IF MemoryExists(btCur)
               THEN UNCHANGED <<pendingWrites, createIssued>>
               ELSE IssueCreateMemory(btCur)
            /\ visited' = visited \cup {btCur}
            /\ thread' = <<btCur>> \o thread
            /\ IF replyTo[btCur] # NoId /\ parentFetched
               THEN /\ btCur' = replyTo[btCur]
                    /\ btDepth' = btDepth + 1
                    /\ UNCHANGED <<btPc, btLeaf, btMax>>
               ELSE /\ btPc' = "done"
                    /\ UNCHANGED <<btLeaf, btCur, btDepth, btMax>>
    /\ UNCHANGED <<lastCheckedTweetId, cachedWatermark, memories, builds>>
    /\ UNCHANGED <<queueVars, worldVars, cycleVars, mergeVars, clientVars, fetchVars>>

\* mutant of ProcessThreadCall: the parent is fetched through the client and
\* the walk goes on to it, and a tweet is pushed at the end of the thread
ProcessThreadCall_walkAppend(parentFetched) ==
    /\ btPc = "call"
    /\ IF DepthExhausted(btDepth, btMax)
       THEN /\ btPc' = "done"
            /\ UNCHANGED <<btLeaf, btCur, btDepth, btMax, thread, visited>>
            /\ UNCHANGED <<pendingWrites, createIssued>>
       ELSE /\ IF MemoryExists(btCur)
               THEN UNCHANGED <<pendingWrites, createIssued>>
               ELSE IssueCreateMemory(btCur)
            /\ IF AlreadyVisited(btCur, visited)
               THEN /\ btPc' = "done"
                    /\ UNCHANGED <<btLeaf, btCur, btDepth, btMax, thread, visited>>
               ELSE /\ visited' = visited \cup {btCur}
                    /\ thread' = Append(thread, btCur)
                    /\ IF replyTo[btCur] # NoId /\ parentFetched
                       THEN /\ btCur' = replyTo[btCur]
                            /\ btDepth' = btDepth + 1
                            /\ UNCHANGED <<btPc, btLeaf, btMax>>
                       ELSE /\ btPc' = "done"
                            /\ UNCHANGED <<btLeaf, btCur, btDepth, btMax>>
    /\ UNCHANGED <<lastCheckedTweetId, cachedWatermark, memories, builds>>
    /\ UNCHANGED <<queueVars, worldVars, cycleVars, mergeVars, clientVars, fetchVars>>

\* One call processThread(currentTweet, depth), lines 422-532, up to the call it
\* makes for the parent (line 513) or its return.  parentFetched: getTweet of
\* the parent would return a tweet (it has one in the cache or from the API);
\* otherwise getTweet throws (base client 151-154).
ProcessThreadCall(parentFetched) ==
    /\ btPc = "call"
    /\ IF DepthExhausted(btDepth, btMax)
       THEN /\ btPc' = "done"
            /\ UNCHANGED <<btLeaf, btCur, btDepth, btMax, thread, visited>>
            /\ UNCHANGED <<pendingWrites, createIssued>>
       ELSE \* lines 440-482: the memory record of the tweet
            /\ IF MemoryExists(btCur)
               THEN UNCHANGED <<pendingWrites, createIssued>>
               ELSE IssueCreateMemory(btCur)
            /\ IF AlreadyVisited(btCur, visited)
               THEN /\ btPc' = "done"
                    /\ UNCHANGED <<btLeaf, btCur, btDepth, btMax, thread, visited>>
               ELSE \* lines 489-490
                    /\ visited' = visited \cup {btCur}
                    /\ thread' = <<btCur>> \o thread
                    \* lines 498-531
                    /\ IF replyTo[btCur] = NoId
                       THEN \* line 526: end of the reply chain
                            /\ btPc' = "done"
                            /\ UNCHANGED <<btLeaf, btCur, btDepth, btMax>>
                       ELSE IF /\ ThisHasTwitterClient
                               /\ parentFetched
                               /\ (RecursiveCallHasThis
                                     \/ DepthExhausted(btDepth + 1, btMax))
                            THEN \* line 513: the call for the parent
                                 /\ btCur' = replyTo[btCur]
                                 /\ btDepth' = btDepth + 1
                                 /\ UNCHANGED <<btPc, btLeaf, btMax>>
                            ELSE \* an exception inside the try of line 503
                                 /\ btPc' = IF ParentErrorCaught THEN "done" ELSE "thrown"
                                 /\ UNCHANGED <<btLeaf, btCur, btDepth, btMax>>
    /\ UNCHANGED <<lastCheckedTweetId, cachedWatermark, memories, builds>>
    /\ UNCHANGED <<queueVars, worldVars, cycleVars, mergeVars, clientVars, fetchVars>>

ProcessThread ==
    /\ btPc = "call"
    /\ ProcessThreadCall(replyTo[btCur] \in fetchable)

(***************************************************************************)
(* The polling cycle (interactions.ts 96-210)                              *)
(***************************************************************************)
\* TWITTER_TARGET_USERS (line 139), split at the commas (line 140)
TargetUsers == <<"a", "b">>
\* the queries of a cycle: `@${username}` (line 133), `from:${username}` (line 152)
MentionQuery == <<"@", "agent">>
FromQuery(u) == <<"from", u>>
Queries == {MentionQuery} \cup { FromQuery(TargetUsers[i]) : i \in 1..Len(TargetUsers) }
\* what twitterClient.v2.search returns for a query when it succeeds ("11" is
\* found by no search; "9" mentions the agent and was written by "a")
SearchFinds(query) ==
    IF query = MentionQuery THEN << Tweet(<<9>>) >>
    ELSE IF query = FromQuery("a") THEN << Tweet(<<9>>) >>
    ELSE << Tweet(<<1, 0>>) >>

\* the outcome of an async call: it threw, or it returned the tweets
Returned(tweets) == [threw |-> FALSE, tweets |-> tweets]
Threw == [threw |-> TRUE, tweets |-> <<>>]

\* fetchSearchTweets (base client 293-320): the catch of lines 316-319 logs the
\* error of a failed search and returns []
FetchSearchTweets(query, failed) ==
    IF query \in failed THEN Returned(<<>>) ELSE Returned(SearchFinds(query))

\* fetchMentionedTweets (lines 131-136)
FetchMentionedTweets(failed) == FetchSearchTweets(MentionQuery, failed)

\* mutant of FetchTargetUserTweets: the failure of one search leaves the function
FetchTargetUserTweets_abort(failed) ==
    IF \E i \in 1..Len(TargetUsers) : FromQuery(TargetUsers[i]) \in failed
    THEN Threw
    ELSE Returned(SearchFinds(FromQuery("a")) \o SearchFinds(FromQuery("b")))

\* the loop of lines 150-157 over the first n target users: an exception of
\* fetchSearchTweets is caught and logged (lines 154-156), the loop goes on
RECURSIVE FetchUsers(_, _)
FetchUsers(n, failed) ==
    IF n = 0 THEN <<>>
    ELSE LET userTweets == FetchSearchTweets(FromQuery(TargetUsers[n]), failed)
         IN IF userTweets.threw
            THEN FetchUsers(n - 1, failed)
            ELSE FetchUsers(n - 1, failed) \o userTweets.tweets

\* fetchTargetUserTweets (lines 138-160)
FetchTargetUserTweets(failed) == Returned(FetchUsers(Len(TargetUsers), failed))

\* the failures an awaited call can end with: rejected credentials, others
ErrorKinds == {"auth", "other"}

\* mutant of CycleErrorCaught: the error leaves handleTwitterInteractions
CycleErrorCaught_rethrown == FALSE
\* Lines 110 and 126-128: the body of handleTwitterInteractions stands inside
\* try/catch, and the catch block only logs, whatever the error is.
CycleErrorCaught == TRUE
\* where handleLoop stands after an error inside handleTwitterInteractions: at
\* the timer of line 101, or dead when the await of line 100 threw
AfterCycleError == IF CycleErrorCaught THEN "timer" ELSE "stopped"

Log(k, id) == [k |-> k, id |-> id]

\* mutant of IsNewerThanWatermark: the ids are compared as strings
IsNewerThanWatermark_lexical(id, last) ==
    last = Null \/ last = 0 \/ LocaleCompare(id, BigIntToString(last)) > 0
\* mutant of IsNewerThanWatermark: >= in the place of >
IsNewerThanWatermark_atLeast(id, last) ==
    last = Null \/ last = 0 \/ BigInt(id) >= last
\* line 176: !this.client.lastCheckedTweetId || BigInt(tweet.id) > lastCheckedTweetId
\* (null and 0n are both falsy)
IsNewerThanWatermark(id, last) ==
    last = Null \/ last = 0 \/ BigInt(id) > last

\* mutant of AdvancedWatermark: the watermark is left as it was
AdvancedWatermark_kept(id, last) == last
\* line 208: this.client.lastCheckedTweetId = BigInt(tweet.id)
AdvancedWatermark(id, last) == BigInt(id)

\* mutant of CacheLatestCheckedTweetId: the entry is not written
CacheLatestCheckedTweetId_stale(last, cached) == cached
\* cacheLatestCheckedTweetId (base client 503-510): the entry after the call
CacheLatestCheckedTweetId(last, cached) ==
    IF last # Null /\ last # 0 THEN BigIntToString(last) ELSE cached

\* loadLatestCheckedTweetId (base client 492-501): the watermark after the call
LoadLatestCheckedTweetId(last, cached) ==
    IF cached # NoId THEN BigInt(cached) ELSE last

CurTweet == candidates[idx]

\* mutant of TimerArmed: the timer is armed when the cycle starts
TimerArmed_atCycleStart(pc) == pc # "stopped"
\* Lines 100-101: setTimeout(handleLoop, pollInterval) is reached when the await
\* of handleTwitterInteractions() has returned (line 104: the first call of
\* handleLoop is made by start() itself)
TimerArmed(pc) == pc = "timer"

\* the timer of line 101 fires (or start() calls handleLoop, line 104):
\* handleLoop calls handleTwitterInteractions (line 100), which runs to its
\* first await (line 111)
StartCycle ==
    /\ UNCHANGED <<queueVars, worldVars, mergeVars, clientVars>>
    /\ TimerArmed(cyclePc)
    /\ cycles < MaxCycles
    /\ cycles' = cycles + 1
    /\ cyclePc' = "fetch"
    /\ candidates' = <<>>
    /\ idx' = 1
    /\ fetchFailed' = {}
    /\ cycleError' = "none"
    /\ polling' = polling + 1
    /\ startWatermark' = lastCheckedTweetId
    /\ UNCHANGED cutShort
    /\ UNCHANGED <<crashes, respLog, storeVars, threadVars>>

\* lines 111-115: fetchMentionedTweets, fetchTargetUserTweets and
\* mergeTweetCandidates.  failed: the queries whose search fails in this cycle.
FetchCandidates(failed) ==
    /\ UNCHANGED <<queueVars, worldVars, mergeVars, clientVars>>
    /\ cyclePc = "fetch"
    /\ fetchFailed' = failed
    /\ LET mentionCandidates == FetchMentionedTweets(failed)
           targetUserTweets == FetchTargetUserTweets(failed)
       IN IF mentionCandidates.threw \/ targetUserTweets.threw
          THEN /\ candidates' = <<>>
               /\ cyclePc' = AfterCycleError
               /\ cycleError' = "other"
               /\ polling' = polling - 1
          ELSE /\ candidates' = MergeTweetCandidates(mentionCandidates.tweets,
                                                     targetUserTweets.tweets)
               /\ cyclePc' = "loop"
               /\ cycleError' = "none"
               /\ UNCHANGED polling
    /\ UNCHANGED <<startWatermark, cutShort>>
    /\ UNCHANGED <<idx, cycles, crashes, respLog, storeVars, threadVars>>

\* mutant of CheckTweet: a candidate that is passed over moves the watermark
CheckTweet_advancesOnSkip ==
    /\ UNCHANGED <<queueVars, worldVars, mergeVars, clientVars, fetchVars>>
    /\ cyclePc = "loop"
    /\ idx <= Len(candidates)
    /\ IF IsNewerThanWatermark(CurTweet.id, lastCheckedTweetId) /\ ~MemoryExists(CurTweet.id)
       THEN /\ cyclePc' = "build"
            /\ StartThread(CurTweet.id, DefaultMaxReplies)
            /\ UNCHANGED <<idx, builds, lastCheckedTweetId>>
       ELSE /\ idx' = idx + 1
            /\ lastCheckedTweetId' = AdvancedWatermark(CurTweet.id, lastCheckedTweetId)
            /\ UNCHANGED <<cyclePc, threadVars>>
    /\ UNCHANGED <<candidates, cycles, crashes, respLog>>
    /\ UNCHANGED <<cachedWatermark, memories, pendingWrites, createIssued>>

\* processTweetIfNeeded, lines 175-193: the watermark test, the memory test and
\* the call of buildConversationThread(tweet, 10)
CheckTweet ==
    /\ UNCHANGED <<queueVars, worldVars, mergeVars, clientVars, fetchVars>>
    /\ cyclePc = "loop"
    /\ idx <= Len(candidates)
    /\ IF IsNewerThanWatermark(CurTweet.id, lastCheckedTweetId) /\ ~MemoryExists(CurTweet.id)
       THEN /\ cyclePc' = "build"
            /\ StartThread(CurTweet.id, DefaultMaxReplies)
            /\ UNCHANGED <<idx, builds>>
       ELSE /\ idx' = idx + 1
            /\ UNCHANGED <<cyclePc, threadVars>>
    /\ UNCHANGED <<candidates, cycles, crashes, respLog, storeVars>>

\* handleTweet is called (line 202) and runs to its first await: it returns at
\* once for a tweet of the agent itself or without text (lines 221-230), and
\* then line 208 advances the watermark
HandleTweetStart ==
    /\ UNCHANGED <<queueVars, worldVars, mergeVars, clientVars>>
    /\ UNCHANGED <<fetchFailed, cycleError, polling, startWatermark>>
    /\ cyclePc = "build"
    /\ btPc = "done"
    /\ cutShort' = cutShort \ {CurTweet.id}
    /\ btPc' = "idle"
    /\ IF CurTweet.id \in quiet
       THEN /\ respLog' = respLog \o <<Log("handed", CurTweet.id), Log("returned", CurTweet.id)>>
            /\ lastCheckedTweetId' = AdvancedWatermark(CurTweet.id, lastCheckedTweetId)
            /\ idx' = idx + 1
            /\ cyclePc' = "loop"
       ELSE /\ respLog' = Append(respLog, Log("handed", CurTweet.id))
            /\ cyclePc' = "handleSave"
            /\ UNCHANGED <<lastCheckedTweetId, idx>>
    /\ UNCHANGED <<candidates, cycles, crashes>>
    /\ UNCHANGED <<cachedWatermark, memories, pendingWrites, createIssued>>
    /\ UNCHANGED <<btLeaf, btCur, btDepth, btMax, thread, visited, builds>>

\* handleTweet, lines 264-293: "check if the tweet exists, save if it doesn't";
\* saveRequestMessage (base client 463-490) is not awaited
HandleTweetSave ==
    /\ UNCHANGED <<queueVars, worldVars, mergeVars, clientVars, fetchVars>>
    /\ cyclePc = "handleSave"
    /\ IF MemoryExists(CurTweet.id)
       THEN UNCHANGED <<pendingWrites, createIssued>>
       ELSE IssueCreateMemory(CurTweet.id)
    /\ cyclePc' = "handleRespond"
    /\ UNCHANGED <<candidates, idx, cycles, crashes, respLog>>
    /\ UNCHANGED <<lastCheckedTweetId, cachedWatermark, memories, threadVars>>

\* handleTweet, lines 295-411, returns (the decision and the reply are the
\* Responder's); then line 208 advances the watermark
HandleTweetReturns ==
    /\ UNCHANGED <<queueVars, worldVars, mergeVars, clientVars, fetchVars>>
    /\ cyclePc = "handleRespond"
    /\ respLog' = Append(respLog, Log("returned", CurTweet.id))
    /\ lastCheckedTweetId' = AdvancedWatermark(CurTweet.id, lastCheckedTweetId)
    /\ idx' = idx + 1
    /\ cyclePc' = "loop"
    /\ UNCHANGED <<candidates, cycles, crashes>>
    /\ UNCHANGED <<cachedWatermark, memories, pendingWrites, createIssued, threadVars>>

\* an awaited call of the cycle throws (getMemoryById, ensureConnection,
\* composeState, generateShouldRespond, cacheManager.set, ...) an error of the
\* kind: the catch of lines 126-128 logs it, handleTwitterInteractions returns,
\* line 101 arms the timer
ThrowInCycle(kind) ==
    /\ UNCHANGED <<queueVars, worldVars, mergeVars, clientVars>>
    /\ cyclePc \in {"loop", "build", "handleSave", "handleRespond"}
    /\ cyclePc' = AfterCycleError
    /\ cycleError' = kind
    /\ polling' = polling - 1
    /\ cutShort' = IF cyclePc \in {"build", "handleSave", "handleRespond"}
                   THEN cutShort \cup {CurTweet.id}
                   ELSE cutShort
    /\ UNCHANGED <<fetchFailed, startWatermark>>
    /\ btPc' = "idle"
    /\ UNCHANGED <<candidates, idx, cycles, crashes, respLog, storeVars>>
    /\ UNCHANGED <<btLeaf, btCur, btDepth, btMax, thread, visited, builds>>

\* the loop of line 118 is over: cacheLatestCheckedTweetId (line 123), return,
\* and line 101 arms the timer
CycleEnd ==
    /\ UNCHANGED <<queueVars, worldVars, mergeVars, clientVars>>
    /\ UNCHANGED <<fetchFailed, cycleError, startWatermark, cutShort>>
    /\ polling' = polling - 1
    /\ cyclePc = "loop"
    /\ idx > Len(candidates)
    /\ cachedWatermark' = CacheLatestCheckedTweetId(lastCheckedTweetId, cachedWatermark)
    /\ cyclePc' = "timer"
    /\ UNCHANGED <<candidates, idx, cycles, crashes, respLog, threadVars>>
    /\ UNCHANGED <<lastCheckedTweetId, memories, pendingWrites, createIssued>>

\* The process dies and is started again: a new ClientBase (lastCheckedTweetId
\* = null, line 107), whose watermark is then loaded from the cache
\* (loadLatestCheckedTweetId); createMemory calls still in flight are lost.
CrashRestart ==
    /\ UNCHANGED <<queueVars, worldVars, mergeVars, clientVars>>
    /\ fetchFailed' = {}
    /\ cycleError' = "none"
    /\ polling' = 0
    /\ startWatermark' = Null
    /\ cutShort' = {}
    /\ crashes < MaxCrashes
    /\ crashes' = crashes + 1
    /\ respLog' = Append(respLog, Log("crash", NoId))
    /\ lastCheckedTweetId' = LoadLatestCheckedTweetId(Null, cachedWatermark)
    /\ pendingWrites' = [i \in TweetIds |-> 0]
    /\ cyclePc' = "timer"
    /\ candidates' = <<>>
    /\ idx' = 1
    /\ btPc' = "idle"
    /\ UNCHANGED <<cycles, cachedWatermark, memories, createIssued>>
    /\ UNCHANGED <<btLeaf, btCur, btDepth, btMax, thread, visited, builds>>

(***************************************************************************)
(* ClientBase (base client 102-192): the instances with their API client   *)
(* and RequestQueue object, getTweet with the tweet cache (115-155), and   *)
(* the calls of the API made by fetchSearchTweets and sendTweet            *)
(***************************************************************************)
\* TWITTER_USERNAME of the runtimes (line 168)
Usernames == {"agent", "other"}
NoClient == 0
\* the tweets getTweet is called for
LookupIds == { <<9>>, <<1, 0>> }
RequestQueues == 1..MaxInstances

\* Line 111: the field initializer requestQueue = new RequestQueue() runs in
\* every construction, so the n-th instance gets an object of its own.
NewRequestQueue(n) == n

\* Lines 173-185: the API client of the username is taken from the static map
\* _twitterClients when it has one, and made and entered otherwise.
TwitterClientFor(username, n) ==
    IF twitterClients[username] # NoClient THEN twitterClients[username] ELSE n

\* new ClientBase(runtime), lines 165-192, for a runtime with the username
NewClientBase(username) ==
    /\ Len(instances) < MaxInstances
    /\ LET n == Len(instances) + 1
       IN /\ instances' = Append(instances,
                 [username |-> username,
                  twitterClient |-> TwitterClientFor(username, n),
                  requestQueue |-> NewRequestQueue(n)])
          /\ twitterClients' =
                 [twitterClients EXCEPT ![username] = TwitterClientFor(username, n)]
    /\ UNCHANGED <<rqQueue, rqProcessing, rqPc, rqRequest, calls, tweetCache, cacheSets>>
    /\ UNCHANGED <<queueVars, worldVars, storeVars, cycleVars, threadVars, mergeVars, fetchVars>>

\* a call of a method of instance i: the API endpoint it uses, the tweet id it
\* is about, where it stands ("queued": its request waits in the RequestQueue,
\* "api": its request to the API is in flight, "returned", "thrown"), and the
\* number of requests to the API made for it
Call(i, api, id, pc, fetches) ==
    [inst |-> i, api |-> api, id |-> id, pc |-> pc, fetches |-> fetches]

\* the request of call k is sent to the API
RequestSent(cs, k) == [cs EXCEPT ![k].pc = "api", ![k].fetches = @ + 1]

\* getTweet(tweetId) of instance i, lines 132-145: a cache entry is returned;
\* without one the request twitterClient.v2.singleTweet is handed to
\* requestQueue.add, whose processQueue() call (lines 70-79) starts it at once
\* when the drain loop is not running.
GetTweet(i, tweetId) ==
    /\ i \in 1..Len(instances)
    /\ Len(calls) < MaxCalls
    /\ LET k == Len(calls) + 1
           q == instances[i].requestQueue
           q1 == Enqueue(rqQueue[q], k)
           waiting == Append(calls, Call(i, "singleTweet", tweetId, "queued", 0))
       IN IF tweetId \in tweetCache
          THEN /\ calls' = Append(calls, Call(i, "singleTweet", tweetId, "returned", 0))
               /\ UNCHANGED <<rqQueue, rqProcessing, rqPc, rqRequest>>
          ELSE IF ProcessQueueReturnsEarly(rqProcessing[q], q1)
               THEN /\ rqQueue' = [rqQueue EXCEPT ![q] = q1]
                    /\ calls' = waiting
                    /\ UNCHANGED <<rqProcessing, rqPc, rqRequest>>
               ELSE /\ rqProcessing' = [rqProcessing EXCEPT ![q] = TRUE]
                    /\ rqQueue' = [rqQueue EXCEPT ![q] = Tail(q1)]
                    /\ rqRequest' = [rqRequest EXCEPT ![q] = Head(q1)]
                    /\ rqPc' = [rqPc EXCEPT ![q] = "awaitRequest"]
                    /\ calls' = RequestSent(waiting, Head(q1))
    /\ UNCHANGED <<twitterClients, instances, tweetCache, cacheSets>>
    /\ UNCHANGED <<queueVars, worldVars, storeVars, cycleVars, threadVars, mergeVars, fetchVars>>

\* cacheTweet (lines 115-122): line 121 calls cacheManager.set without await,
\* so cacheTweet, and the await of line 149, return while the write is in flight
CacheTweet(id) == cacheSets' = [cacheSets EXCEPT ![id] = @ + 1]

\* singleTweet of the request that RequestQueue object q runs returns: the
\* wrapper resolves the promise of add (line 61), getTweet caches the tweet and
\* returns it (lines 147-150); the drain loop goes to randomDelay (line 85)
SingleTweetReturns(q) ==
    /\ rqPc[q] = "awaitRequest"
    /\ calls' = [calls EXCEPT ![rqRequest[q]].pc = "returned"]
    /\ CacheTweet(calls[rqRequest[q]].id)
    /\ rqPc' = [rqPc EXCEPT ![q] = "randomDelay"]
    /\ UNCHANGED <<twitterClients, instances, rqQueue, rqProcessing, rqRequest, tweetCache>>
    /\ UNCHANGED <<queueVars, worldVars, storeVars, cycleVars, threadVars, mergeVars, fetchVars>>

\* singleTweet throws: the wrapper rejects the promise of add (line 63) and
\* returns, getTweet throws 'Failed to fetch the tweet' (lines 151-154); the
\* drain loop goes to randomDelay as after a success
SingleTweetThrows(q) ==
    /\ rqPc[q] = "awaitRequest"
    /\ ~WrapperRejects(TRUE)
    /\ calls' = [calls EXCEPT ![rqRequest[q]].pc = "thrown"]
    /\ rqPc' = [rqPc EXCEPT ![q] = "randomDelay"]
    /\ UNCHANGED <<twitterClients, instances, rqQueue, rqProcessing, rqRequest>>
    /\ UNCHANGED <<tweetCache, cacheSets>>
    /\ UNCHANGED <<queueVars, worldVars, storeVars, cycleVars, threadVars, mergeVars, fetchVars>>

\* randomDelay of line 85 is over: the loop test of line 76 starts the next
\* request or ends the drain loop (line 88)
RandomDelayElapses(q) ==
    /\ rqPc[q] = "randomDelay"
    /\ IF Len(rqQueue[q]) > 0
       THEN /\ rqQueue' = [rqQueue EXCEPT ![q] = Tail(rqQueue[q])]
            /\ rqRequest' = [rqRequest EXCEPT ![q] = Head(rqQueue[q])]
            /\ rqPc' = [rqPc EXCEPT ![q] = "awaitRequest"]
            /\ calls' = RequestSent(calls, Head(rqQueue[q]))
            /\ UNCHANGED rqProcessing
       ELSE /\ rqProcessing' = [rqProcessing EXCEPT ![q] = FALSE]
            /\ rqPc' = [rqPc EXCEPT ![q] = "idle"]
            /\ UNCHANGED <<rqQueue, rqRequest, calls>>
    /\ UNCHANGED <<twitterClients, instances, tweetCache, cacheSets>>
    /\ UNCHANGED <<queueVars, worldVars, storeVars, cycleVars, threadVars, mergeVars, fetchVars>>

\* fetchSearchTweets of instance i, lines 293-301: twitterClient.v2.search is
\* called and awaited in the method itself
FetchSearchTweetsCalled(i) ==
    /\ i \in 1..Len(instances)
    /\ Len(calls) < MaxCalls
    /\ calls' = Append(calls, Call(i, "search", NoId, "api", 1))
    /\ UNCHANGED <<twitterClients, instances, rqQueue, rqProcessing, rqPc, rqRequest>>
    /\ UNCHANGED <<tweetCache, cacheSets>>
    /\ UNCHANGED <<queueVars, worldVars, storeVars, cycleVars, threadVars, mergeVars, fetchVars>>

\* sendTweet of instance i, lines 590-604: twitterClient.v2.tweet is called and
\* awaited in the method itself
SendTweetCalled(i) ==
    /\ i \in 1..Len(instances)
    /\ Len(calls) < MaxCalls
    /\ calls' = Append(calls, Call(i, "tweet", NoId, "api", 1))
    /\ UNCHANGED <<twitterClients, instances, rqQueue, rqProcessing, rqPc, rqRequest>>
    /\ UNCHANGED <<tweetCache, cacheSets>>
    /\ UNCHANGED <<queueVars, worldVars, storeVars, cycleVars, threadVars, mergeVars, fetchVars>>

\* the search or the tweet of call k settles: fetchSearchTweets returns the
\* tweets, or [] after an error (lines 313-319); sendTweet returns the tweet
\* (line 612) or the error of line 604 leaves it
DirectCallSettles(k, ok) ==
    /\ k \in 1..Len(calls)
    /\ calls[k].api \in {"search", "tweet"}
    /\ calls[k].pc = "api"
    /\ calls' = [calls EXCEPT ![k].pc =
                    IF ok \/ calls[k].api = "search" THEN "returned" ELSE "thrown"]
    /\ UNCHANGED <<twitterClients, instances, rqQueue, rqProcessing, rqPc, rqRequest>>
    /\ UNCHANGED <<tweetCache, cacheSets>>
    /\ UNCHANGED <<queueVars, worldVars, storeVars, cycleVars, threadVars, mergeVars, fetchVars>>

\* a cacheManager.set call that nobody awaits settles: the entry is written ...
CacheSetCompletes(id) ==
    /\ cacheSets[id] > 0
    /\ cacheSets' = [cacheSets EXCEPT ![id] = @ - 1]
    /\ tweetCache' = tweetCache \cup {id}
    /\ UNCHANGED <<twitterClients, instances, rqQueue, rqProcessing, rqPc, rqRequest, calls>>
    /\ UNCHANGED <<queueVars, worldVars, storeVars, cycleVars, threadVars, mergeVars, fetchVars>>

\* ... or the call fails and nobody sees it
CacheSetFails(id) ==
    /\ cacheSets[id] > 0
    /\ cacheSets' = [cacheSets EXCEPT ![id] = @ - 1]
    /\ UNCHANGED <<twitterClients, instances, rqQueue, rqProcessing, rqPc, rqRequest, calls>>
    /\ UNCHANGED tweetCache
    /\ UNCHANGED <<queueVars, worldVars, storeVars, cycleVars, threadVars, mergeVars, fetchVars>>

(***************************************************************************)
(* Initial states and specifications                                       *)
(***************************************************************************)
\* reply graphs: every tweet is no reply or replies to some tweet (itself included)
ReplyGraphs == [TweetIds -> TweetIds \cup {NoId}]
\* what getTweet can return: every tweet, only "9", no tweet
FetchableSets == { TweetIds, { <<9>> }, {} }
\* the graphs of the polling specifications: no replies; the chain 11 -> 10 -> 9;
\* 9 and 10 replying to each other
CycleReplyGraphs ==
    { [i \in TweetIds |-> NoId],
      (<<9>> :> NoId) @@ (<<1, 0>> :> <<9>>) @@ (<<1, 1>> :> <<1, 0>>),
      (<<9>> :> <<1, 0>>) @@ (<<1, 0>> :> <<9>>) @@ (<<1, 1>> :> NoId) }

StoreInit ==
    /\ lastCheckedTweetId = Null
    /\ cachedWatermark = NoId
    /\ memories = {}
    /\ pendingWrites = [i \in TweetIds |-> 0]
    /\ createIssued = [i \in TweetIds |-> 0]

CycleInit ==
    /\ cyclePc = "timer"
    /\ candidates = <<>>
    /\ idx = 1
    /\ cycles = 0
    /\ crashes = 0
    /\ respLog = <<>>
    /\ fetchFailed = {}
    /\ cycleError = "none"
    /\ polling = 0
    /\ startWatermark = Null
    /\ cutShort = {}

BuildInit ==
    /\ btPc = "idle"
    /\ btLeaf = NoId
    /\ btCur = NoId
    /\ btDepth = 0
    /\ btMax = 0
    /\ thread = <<>>
    /\ visited = {}
    /\ builds = 0

ClientInit ==
    /\ twitterClients = [u \in Usernames |-> NoClient]
    /\ instances = <<>>
    /\ rqQueue = [q \in RequestQueues |-> <<>>]
    /\ rqProcessing = [q \in RequestQueues |-> FALSE]
    /\ rqPc = [q \in RequestQueues |-> "idle"]
    /\ rqRequest = [q \in RequestQueues |-> 0]
    /\ calls = <<>>
    /\ tweetCache = {}
    /\ cacheSets = [i \in TweetIds |-> 0]

MergeIdle ==
    /\ mentions = <<>>
    /\ targetTweets = <<>>
    /\ uniqueCandidates = <<>>
    /\ mergePc = "idle"

\* the tweets handed to mergeTweetCandidates directly: two fetches of a tweet
\* can differ in its metrics
MergeTweets == [id : TweetIds, metrics : {0, 1}]
MergeLists == UNION { [1..k -> MergeTweets] : k \in 0..MaxLen }

InitMerge ==
    /\ QueueInit /\ StoreInit /\ CycleInit /\ BuildInit /\ ClientInit
    /\ replyTo = [i \in TweetIds |-> NoId]
    /\ quiet = {}
    /\ fetchable = TweetIds
    /\ mentions \in MergeLists
    /\ targetTweets \in MergeLists
    /\ uniqueCandidates = <<>>
    /\ mergePc = "idle"

InitQueue ==
    /\ QueueInit /\ StoreInit /\ CycleInit /\ BuildInit /\ MergeIdle /\ ClientInit
    /\ replyTo = [i \in TweetIds |-> NoId]
    /\ quiet = {}
    /\ fetchable = TweetIds

InitIngest ==
    /\ QueueInit /\ StoreInit /\ CycleInit /\ BuildInit /\ MergeIdle /\ ClientInit
    /\ replyTo \in CycleReplyGraphs
    /\ quiet \in { {}, { <<1, 0>> } }
    /\ fetchable = TweetIds

\* the reply chain 11 -> 10 -> 9
ReplyChain == (<<9>> :> NoId) @@ (<<1, 0>> :> <<9>>) @@ (<<1, 1>> :> <<1, 0>>)

InitIngestLive ==
    /\ QueueInit /\ StoreInit /\ CycleInit /\ BuildInit /\ MergeIdle /\ ClientInit
    /\ replyTo = ReplyChain
    /\ quiet \in { {}, { <<1, 0>> } }
    /\ fetchable = TweetIds

InitThread ==
    /\ QueueInit /\ StoreInit /\ CycleInit /\ BuildInit /\ MergeIdle /\ ClientInit
    /\ replyTo \in ReplyGraphs
    /\ quiet = {}
    /\ fetchable \in FetchableSets

IngestNext ==
    \/ StartCycle
    \/ \E failed \in SUBSET Queries : FetchCandidates(failed)
    \/ CheckTweet
    \/ ProcessThread
    \/ HandleTweetStart
    \/ HandleTweetSave
    \/ HandleTweetReturns
    \/ \E kind \in ErrorKinds : ThrowInCycle(kind)
    \/ CycleEnd
    \/ \E id \in TweetIds : MemoryWriteCompletes(id)
    \/ \E id \in TweetIds : MemoryWriteFails(id)

CrashNext ==
    \/ IngestNext
    \/ CrashRestart

\* buildConversationThread(tweet, maxReplies) called directly
BuildConversationThread(leaf, maxReplies) ==
    /\ btPc \in {"idle", "done", "thrown"}
    /\ builds < MaxBuilds
    /\ builds' = builds + 1
    /\ StartThread(leaf, maxReplies)
    /\ UNCHANGED <<queueVars, worldVars, storeVars, cycleVars, mergeVars, clientVars, fetchVars>>

ThreadNext ==
    \/ \E leaf \in TweetIds, m \in 0..MaxRepliesArg : BuildConversationThread(leaf, m)
    \/ ProcessThread
    \/ \E id \in TweetIds : MemoryWriteCompletes(id)
    \/ \E id \in TweetIds : MemoryWriteFails(id)

MergeNext ==
    \/ MergeCall

InitClient ==
    /\ QueueInit /\ StoreInit /\ CycleInit /\ BuildInit /\ MergeIdle /\ ClientInit
    /\ replyTo = [i \in TweetIds |-> NoId]
    /\ quiet = {}
    /\ fetchable = TweetIds

ClientNext ==
    \/ \E username \in Usernames : NewClientBase(username)
    \/ \E i \in 1..MaxInstances, tweetId \in LookupIds : GetTweet(i, tweetId)
    \/ \E q \in RequestQueues : SingleTweetReturns(q)
    \/ \E q \in RequestQueues : SingleTweetThrows(q)
    \/ \E q \in RequestQueues : RandomDelayElapses(q)
    \/ \E i \in 1..MaxInstances : FetchSearchTweetsCalled(i)
    \/ \E i \in 1..MaxInstances : SendTweetCalled(i)
    \/ \E k \in 1..MaxCalls, ok \in BOOLEAN : DirectCallSettles(k, ok)
    \/ \E id \in LookupIds : CacheSetCompletes(id)
    \/ \E id \in LookupIds : CacheSetFails(id)

SpecClient == InitClient /\ [][ClientNext]_vars

SpecMerge == InitMerge /\ [][MergeNext]_vars
SpecQueue == InitQueue /\ [][QueueNext]_vars
\* every operation terminates (an attempt in flight returns or throws), and the
\* timers of the drain loop fire
SpecQueueLive ==
    InitQueue /\ [][QueueNext]_vars
        /\ WF_vars(\E d \in Ops : RequestResolves(d))
        /\ WF_vars(\E d \in Ops : DelayElapses(d))
SpecIngest == InitIngest /\ [][IngestNext]_vars
SpecCrash == InitIngest /\ [][CrashNext]_vars
\* the timer of line 101 fires when it is armed
SpecIngestLive ==
    InitIngestLive /\ [][IngestNext]_vars
        /\ WF_vars(StartCycle)
SpecThread == InitThread /\ [][ThreadNext]_vars /\ WF_vars(ProcessThread)

(***************************************************************************)
(* Claims about the RequestQueue (specification SpecQueue)                 *)
(***************************************************************************)
EventIdx(k, o) == { i \in 1..Len(events) : events[i].k = k /\ events[i].op = o }
Started(o) == EventIdx("start", o) # {}
FirstStart(o) == Min(EventIdx("start", o))
Submitted(o) == EventIdx("add", o) # {}
SubmitIdx(o) == Min(EventIdx("add", o))

\* C1: at most one submitted operation is executing at any moment: no two
\* processQueue() calls are at `await request()` at once, however the add()
\* calls interleave with the steps of the drain loop.
C1_AtMostOneExecuting ==
    /\ Cardinality({ d \in Ops : pqPc[d] = "awaitRequest" }) <= 1
    /\ Cardinality(Executing) <= 1

\* C1 witness: an operation is executing while two later submissions wait.
C1_Witness == Cardinality(Executing) = 1 /\ Len(queue) = 2

\* C2: operations start in the order of their submission: when b has started
\* and a was submitted before b, a has started, and earlier than b.
C2_StartInSubmissionOrder ==
    \A a \in Ops, b \in Ops :
        (Started(b) /\ Submitted(a) /\ SubmitIdx(a) < SubmitIdx(b))
            => (Started(a) /\ FirstStart(a) < FirstStart(b))

\* C2 witness: three operations, submitted in the order 2, 3, 1 while the
\* first of them was still executing, have all started.
C2_Witness ==
    /\ \A o \in 1..3 : Started(o)
    /\ SubmitIdx(2) < SubmitIdx(3) /\ SubmitIdx(3) < SubmitIdx(1)
    /\ SubmitIdx(1) < Min(EventIdx("ok", 2) \cup EventIdx("fail", 2) \cup {Len(events) + 1})

\* C3 (as claimed): once an attempt of operation o has failed, no operation
\* submitted after o starts before an attempt of o has succeeded.
C3_FailedIsRetriedBeforeLater ==
    \A i \in 1..Len(events), j \in 1..Len(events) :
        (/\ i < j
         /\ events[i].k = "fail"
         /\ events[j].k = "start"
         /\ SubmitIdx(events[i].op) < SubmitIdx(events[j].op))
            => \E m \in (i + 1)..(j - 1) :
                   events[m].k = "ok" /\ events[m].op = events[i].op

\* C4 (as claimed): the promise returned by add() is never rejected because an
\* attempt failed; it stays pending until an attempt succeeds.
C4_PromiseNeverRejected ==
    \A o \in Ops : promise[o] # "rejected"

Failures == { i \in 1..Len(events) : events[i].k = "fail" }

\* C24 (as claimed): after every failure of an operation the queue waits
\* 2^n * 1000 ms, n being a queue depth (there are as many backoff waits as
\* failures, each of 2^n * 1000 ms), and the waits of consecutive failures
\* are strictly increasing.
C24_BackoffAfterEachFailure ==
    /\ Len(waits) = Cardinality(Failures)
    /\ \A i \in 1..Len(waits) : \E n \in 0..(MaxOps + 1) : waits[i] = Pow2(n) * 1000
    /\ \A i \in 1..Len(waits), j \in 1..Len(waits) : i < j => waits[i] < waits[j]

\* C32: when every operation terminates, every operation submitted with add()
\* is started and its promise is settled, also when add() was called while the
\* drain loop was in a delay; and the queue is never non-empty while no drain
\* loop is active.
C32_EverySubmittedOperationRuns ==
    /\ [](Len(queue) > 0 =>
            /\ processing
            /\ \E d \in Ops : pqPc[d] \in {"awaitRequest", "backoff", "randomDelay"})
    /\ \A o \in Ops :
          (promise[o] = "pending") ~> (Started(o) /\ promise[o] \in {"resolved", "rejected"})

\* C32 witness: operation 2 was submitted right after operation 1 had settled,
\* while the drain loop was in randomDelay; the processQueue() call of its
\* add() returned at line 72, the running drain loop started it, and its
\* promise is resolved.
C32_Witness ==
    /\ promise[2] = "resolved"
    /\ pqRequest[2] = NoOp
    /\ Started(2)
    /\ \E i \in 1..Len(events) :
          /\ events[i].k \in {"ok", "fail"}
          /\ events[i].op = 1
          /\ i + 1 = SubmitIdx(2)

\* C34: while the drain loop is in randomDelay the delay d it waits is
\* 1500 <= d < 3500 ms, and between the starts of two consecutive operations
\* timers of at least 1500 ms have run.
C34_JitterBetweenOperations ==
    /\ \A d \in Ops : pqPc[d] = "randomDelay" => (1500 <= jitter /\ jitter < 3500)
    /\ lastGap # NoGap => lastGap >= 1500

\* C34 witness: Math.random() gave 0, the drain loop ended after a delay of
\* 1500 ms with an empty queue, and the next add() started its operation at
\* once: 1500 ms after the start of the one before.
C34_Witness ==
    /\ lastGap = 1500
    /\ \E o \in Ops :
          /\ pqPc[o] = "awaitRequest"
          /\ pqRequest[o] = o
          /\ \E a \in Ops \ {o} : Started(a) /\ FirstStart(a) < FirstStart(o)

(***************************************************************************)
(* Claims about the polling cycle (SpecIngest, SpecCrash)                  *)
(***************************************************************************)
LastLog == respLog[Len(respLog)]
\* the candidate before the loop position was handed to handleTweet, handleTweet
\* returned, and nothing was handed since: the loop is about to go on
JustReturned ==
    /\ cyclePc = "loop"
    /\ idx > 1
    /\ idx - 1 <= Len(candidates)
    /\ respLog # <<>>
    /\ LastLog = Log("returned", candidates[idx - 1].id)

\* C5: the watermark never decreases: in every step of the cycles (candidates
\* processed or skipped, errors thrown, writes settling) lastCheckedTweetId
\* after the step is >= lastCheckedTweetId before it (null counting as below
\* every id), and so is the watermark in the cache.
C5_WatermarkNeverDecreases ==
    [][ /\ lastCheckedTweetId' >= lastCheckedTweetId
        /\ BigInt(cachedWatermark') >= BigInt(cachedWatermark) ]_vars

\* C5 witness: the watermark is 10 and the loop reaches the candidate "9",
\* which the sort of the candidates has put behind "10".
C5_Witness ==
    /\ cyclePc = "loop"
    /\ idx <= Len(candidates)
    /\ CurTweet.id = <<9>>
    /\ lastCheckedTweetId = 10

\* C6: a candidate whose id is numerically <= the watermark is never
\* thread-built and never handed to handleTweet: while a candidate is in
\* buildConversationThread or handleTweet, the number its id denotes is above
\* the watermark.
C6_AtOrBelowWatermarkNeverProcessed ==
    cyclePc \in {"build", "handleSave", "handleRespond"}
        => BigInt(CurTweet.id) > lastCheckedTweetId

\* C6 witness: the loop has passed the candidate "9" with the watermark at 10
\* ("9" is the greater string, 9 the smaller number); "9" has no memory record,
\* and it was neither thread-built nor handed to handleTweet.
C6_Witness ==
    /\ cyclePc = "loop"
    /\ idx > 1
    /\ idx - 1 <= Len(candidates)
    /\ candidates[idx - 1].id = <<9>>
    /\ lastCheckedTweetId = 10
    /\ createIssued[<<9>>] = 0
    /\ \A i \in 1..Len(respLog) : respLog[i].id # <<9>>

C8_NoReprocessingAfterCrash ==
    /\ \A i \in 1..Len(respLog), j \in 1..Len(respLog), m \in 1..Len(respLog) :
          (i < j /\ j < m /\ respLog[i].k = "returned" /\ respLog[j].k = "crash")
              => ~(respLog[m].k = "handed" /\ respLog[m].id = respLog[i].id)
    /\ \A j \in 1..Len(respLog) :
          respLog[j].k = "crash" =>
              Cardinality({ i \in 1..(j - 1) :
                              /\ respLog[i].k = "handed"
                              /\ \A n \in (i + 1)..(j - 1) : respLog[n].k = "crash" }) <= 1

\* C9 (as claimed): createMemory is issued at most once for the record id of
\* a tweet, however often a candidate set is processed.
C9_CreateMemoryOncePerId ==
    \A id \in TweetIds : createIssued[id] <= 1

(***************************************************************************)
(* Claims about buildConversationThread (SpecThread)                       *)
(***************************************************************************)
\* the call was made for a tweet that replies to a tweet replying to it
LeafInReplyCycle ==
    /\ thread # <<>>
    /\ replyTo[thread[Len(thread)]] # NoId
    /\ replyTo[replyTo[thread[Len(thread)]]] = thread[Len(thread)]

\* C10: buildConversationThread terminates for every reply graph (every call
\* that is started returns), and for a leaf A that replies to B while B
\* replies to A the returned thread has at most 2 elements.
C10_TerminatesOnReplyCycles ==
    /\ (btPc = "call") ~> (btPc = "done")
    /\ []((btPc = "done" /\ LeafInReplyCycle) => Len(thread) <= 2)

\* C10 witness: a call with maxReplies 3 for "9", where "9" replies to "10" and
\* "10" replies to "9", has returned.
C10_Witness ==
    /\ btPc = "done"
    /\ btMax = 3
    /\ thread # <<>>
    /\ thread[Len(thread)] = <<9>>
    /\ replyTo[<<9>>] = <<1, 0>>
    /\ replyTo[<<1, 0>>] = <<9>>

\* the reply chain of a tweet, oldest first, cut to its n nearest items
RECURSIVE UpTo(_, _)
UpTo(id, n) ==
    IF n = 0 \/ id = NoId THEN <<>> ELSE Append(UpTo(replyTo[id], n - 1), id)
\* the reply chain of the tweet ends at a tweet that is no reply
AcyclicChain(id) == Len(UpTo(id, Cardinality(TweetIds) + 1)) <= Cardinality(TweetIds)
\* getTweet returns every tweet of the chain above the tweet
AncestorsFetchable(id) ==
    \A i \in 1..Len(UpTo(id, Cardinality(TweetIds))) :
        LET a == UpTo(id, Cardinality(TweetIds))[i]
        IN a # id => a \in fetchable
\* among the n nearest items of the chain there is one whose parent getTweet
\* does not return
SomeParentUnfetchable(id, n) ==
    \E i \in 1..Len(UpTo(id, n)) :
        LET a == UpTo(id, n)[i]
        IN replyTo[a] # NoId /\ replyTo[a] \notin fetchable

\* C11: the thread of buildConversationThread holds no tweet id twice, for
\* every leaf, reply graph (cycles and self-replies included) and maxReplies.
C11_NoIdTwiceInThread ==
    \A i \in 1..Len(thread), j \in 1..Len(thread) : thread[i] = thread[j] => i = j

\* C11 witness: a call with maxReplies >= 2 for a tweet that replies to itself
\* and that getTweet returns has returned a thread.
C11_Witness ==
    /\ btPc = "done"
    /\ btMax >= 2
    /\ thread # <<>>
    /\ replyTo[btLeaf] = btLeaf
    /\ btLeaf \in fetchable

\* C12: the thread of buildConversationThread has at most maxReplies items,
\* for every leaf, reply graph and maxReplies (maxReplies 0 gives the empty
\* thread).
C12_AtMostMaxRepliesItems ==
    btPc \in {"call", "done"} => Len(thread) <= btMax

\* C12 witness: a call with maxReplies 1 for a reply whose parent getTweet
\* returns has returned a thread of one item.
C12_Witness ==
    /\ btPc = "done"
    /\ btMax = 1
    /\ replyTo[btLeaf] # NoId
    /\ replyTo[btLeaf] \in fetchable
    /\ Len(thread) = 1

\* C13 (as claimed): for a leaf whose reply chain is acyclic and whose
\* ancestors getTweet all returns, the returned thread is the chain, oldest
\* first, cut to its maxReplies nearest items.
C13_ThreadIsNearestAncestors ==
    (btPc = "done" /\ AcyclicChain(btLeaf) /\ AncestorsFetchable(btLeaf))
        => thread = UpTo(btLeaf, btMax)

\* C14: a parent that cannot be fetched does not make buildConversationThread
\* throw: no call ends with an exception, and a call that met such a parent
\* returns the part of the chain collected so far, the leaf last.
C14_FetchFailureTruncates ==
    /\ btPc # "thrown"
    /\ (btPc = "done" /\ btMax >= 1 /\ SomeParentUnfetchable(btLeaf, btMax))
          => /\ thread # <<>>
             /\ thread[Len(thread)] = btLeaf
             /\ thread = UpTo(btLeaf, Len(thread))

\* C14 witness: a call with maxReplies 3 for "10", a reply to "9" that getTweet
\* does not return, has returned the thread ["10"].
C14_Witness ==
    /\ btPc = "done"
    /\ btMax = 3
    /\ btLeaf = <<1, 0>>
    /\ replyTo[<<1, 0>>] = <<9>>
    /\ <<9>> \notin fetchable
    /\ thread = << <<1, 0>> >>

\* C15 (as claimed): over all calls of buildConversationThread, createMemory
\* is issued at most once for a tweet id: an id for which it was issued has
\* exactly one call.
C15_ThreadPersistsOncePerId ==
    \A id \in TweetIds : createIssued[id] > 0 => createIssued[id] = 1

AllGiven == mentions \o targetTweets
IdsOf(list) == { list[i].id : i \in 1..Len(list) }

\* C16: the list mergeTweetCandidates returns holds every id of the two
\* lists exactly once (its length is the number of distinct ids), and the tweet
\* it holds for an id is the first one with that id in mentions followed by
\* targetTweets.
C16_EachIdOnceFirstKept ==
    mergePc = "returned" =>
        /\ IdsOf(uniqueCandidates) = IdsOf(AllGiven)
        /\ Len(uniqueCandidates) = Cardinality(IdsOf(AllGiven))
        /\ \A k \in 1..Len(uniqueCandidates) :
              \E i \in 1..Len(AllGiven) :
                  /\ uniqueCandidates[k] = AllGiven[i]
                  /\ \A j \in 1..(i - 1) : AllGiven[j].id # AllGiven[i].id

\* C16 witness: "9" is in mentions with metrics 0 and twice in targetTweets
\* with metrics 1, and the call has returned.
C16_Witness ==
    /\ mergePc = "returned"
    /\ mentions = << [id |-> <<9>>, metrics |-> 0] >>
    /\ targetTweets = << [id |-> <<9>>, metrics |-> 1], [id |-> <<9>>, metrics |-> 1] >>
    /\ uniqueCandidates = << [id |-> <<9>>, metrics |-> 0] >>

\* C17 (as claimed): the list mergeTweetCandidates returns is ascending in the
\* numbers that the ids denote.
C17_AscendingByNumericId ==
    mergePc = "returned" =>
        \A i \in 1..Len(uniqueCandidates), j \in 1..Len(uniqueCandidates) :
            i < j => BigInt(uniqueCandidates[i].id) < BigInt(uniqueCandidates[j].id)

(***************************************************************************)
(* Claims about errors in the polling cycle (SpecIngest, SpecIngestLive)   *)
(***************************************************************************)
\* the ids that the searches of a cycle return when the queries of `failed` fail
IdsFound(failed) == UNION { IdsOf(SearchFinds(q)) : q \in Queries \ failed }

\* C18: an error thrown inside a cycle does not leave handleTwitterInteractions
\* (handleLoop is never dead), and whenever the timer is armed, after a cycle
\* that ended with or without an error, the next cycle starts.
C18_ErrorContainedNextCycleStarts ==
    /\ [](cyclePc # "stopped")
    /\ \A n \in 0..(MaxCycles - 1) :
          (cyclePc = "timer" /\ cycles = n) ~> (cycles = n + 1)

\* C18 witness: the first cycle ended with an error thrown while handleTweet
\* was running, and the second cycle has started.
C18_Witness ==
    /\ cycles = 2
    /\ cyclePc = "loop"
    /\ respLog # <<>>
    /\ LastLog.k = "handed"

\* C19: the failure of searches does not abort the cycle: the step that
\* fetches ends in the for loop of line 118 with the candidates of all the
\* searches that did not fail, and a cycle that ends without an error has
\* passed all of them through processTweetIfNeeded.
C19_PartialFailureDoesNotAbort ==
    /\ [][ (cyclePc = "fetch" /\ cyclePc' # "fetch") =>
              /\ cyclePc' = "loop"
              /\ IdsOf(candidates') = IdsFound(fetchFailed') ]_vars
    /\ [][ (cyclePc # "timer" /\ cyclePc' = "timer" /\ cycleError' = "none")
              => idx > Len(candidates) ]_vars

\* C19 witness: the search for the tweets of "a" failed; "9" of the mentions
\* and "10" of "b" are the candidates, handleTweet has returned for "10" and
\* the loop has passed both.
C19_Witness ==
    /\ cycles = 1
    /\ cyclePc = "loop"
    /\ fetchFailed = { FromQuery("a") }
    /\ candidates = << Tweet(<<1, 0>>), Tweet(<<9>>) >>
    /\ idx = 3
    /\ \E i \in 1..Len(respLog) : respLog[i] = Log("returned", <<1, 0>>)

\* C20 (as claimed): an error of a cycle leaves the cycle exactly when it is
\* an authentication failure: after an authentication failure handleLoop is
\* dead (the error went to the caller), after any other error it is not.
C20_OnlyAuthFailureEscapes ==
    /\ cycleError = "auth" => cyclePc = "stopped"
    /\ cyclePc = "stopped" => cycleError = "auth"

(***************************************************************************)
(* Claims about ClientBase (SpecClient)                                    *)
(***************************************************************************)
\* the RequestQueue object that call k submits to
QueueOfCall(k) == instances[calls[k].inst].requestQueue
\* the request of call k is in flight at the API
InFlight(k) == calls[k].pc = "api"
\* the request of call k is the one a drain loop is executing
RunByQueue(k) ==
    \E q \in RequestQueues : rqPc[q] = "awaitRequest" /\ rqRequest[q] = k

\* C21 (as claimed): every request to the API (search, fetch by id, post) is
\* executed as an operation of a RequestQueue: a request in flight is the
\* request that the drain loop of the caller's RequestQueue is executing.
C21_EveryApiCallThroughQueue ==
    \A k \in 1..Len(calls) :
        InFlight(k) =>
            /\ rqPc[QueueOfCall(k)] = "awaitRequest"
            /\ rqRequest[QueueOfCall(k)] = k

\* C22 (as claimed): two ClientBase instances of one username have the same
\* API client and the same RequestQueue, and of the requests submitted to the
\* queue through instances of one username at most one is in flight.
C22_SameAccountSharesClientAndQueue ==
    /\ \A i \in 1..Len(instances), j \in 1..Len(instances) :
          instances[i].username = instances[j].username =>
              /\ instances[i].twitterClient = instances[j].twitterClient
              /\ instances[i].requestQueue = instances[j].requestQueue
    /\ \A k \in 1..Len(calls), m \in 1..Len(calls) :
          (/\ RunByQueue(k) /\ RunByQueue(m)
           /\ instances[calls[k].inst].username = instances[calls[m].inst].username)
              => k = m

\* C23 (as claimed): a getTweet call that missed the cache made exactly one
\* request to the API, through the RequestQueue, and when it has returned the
\* tweet the cache holds the tweet, so that a later getTweet of the id makes
\* no request.
C23_GetTweetReadThrough ==
    \A k \in 1..Len(calls) :
        (calls[k].api = "singleTweet" /\ calls[k].pc = "returned") =>
            /\ calls[k].fetches <= 1
            /\ calls[k].id \in tweetCache

(***************************************************************************)
(* Claims about the cycles and the watermark (SpecIngest)                  *)
(***************************************************************************)
\* the loop of line 118 passes the candidate it stands at without building its
\* thread: processTweetIfNeeded returns at line 182 or fails the test of line 176
CandidateSkipped ==
    /\ cyclePc = "loop"
    /\ idx <= Len(candidates)
    /\ cyclePc' = "loop"
    /\ idx' = idx + 1

HandedIdx(id) == { i \in 1..Len(respLog) : respLog[i] = Log("handed", id) }
ReturnedIdx == { i \in 1..Len(respLog) : respLog[i].k = "returned" }
Max(S) == CHOOSE x \in S : \A y \in S : x >= y

\* C25: the cycles started by one start() call never overlap: at most one
\* handleTwitterInteractions call is in progress at any time, none is in
\* progress while the timer of the next cycle is armed, and a cycle starts only
\* when none is in progress.
C25_CyclesNeverOverlap ==
    /\ polling <= 1
    /\ cyclePc = "timer" => polling = 0
    /\ cyclePc \in {"fetch", "loop", "build", "handleSave", "handleRespond"} => polling = 1

\* C25 witness: the first cycle is over and the second one is building the
\* thread of a candidate.
C25_Witness ==
    /\ cycles = 2
    /\ cyclePc = "build"
    /\ polling = 1

\* C26 (as claimed): a candidate that the loop passes without handing it to
\* handleTweet has a durable record or an id that is not above the watermark
\* the cycle started with; no candidate is passed because of a candidate
\* processed before it in the same cycle.
C26_EligibleCandidateNeverSkipped ==
    [][ CandidateSkipped =>
           \/ MemoryExists(CurTweet.id)
           \/ ~IsNewerThanWatermark(CurTweet.id, startWatermark) ]_vars

\* C27 (as claimed): a candidate whose processing an error cut short (thread
\* building or handleTweet threw) is handed to handleTweet when a later cycle
\* fetches it again: the loop of a later cycle does not pass it.
C27_CutShortCandidateHandedLater ==
    [][ (CandidateSkipped /\ CurTweet.id \in cutShort) => FALSE ]_vars

\* C28 (as claimed): without a crash no tweet is handed to handleTweet more
\* than once, and the ids for which handleTweet returned are strictly
\* increasing as numbers.
C28_HandedAtMostOnce ==
    /\ \A id \in TweetIds : Cardinality(HandedIdx(id)) <= 1
    /\ \A i \in ReturnedIdx, j \in ReturnedIdx :
          i < j => BigInt(respLog[i].id) < BigInt(respLog[j].id)

\* C29: whenever lastCheckedTweetId is set, it is the highest id for which
\* handleTweet has returned so far, and when handleTweet has returned for a
\* candidate it is that candidate's id.
C29_WatermarkIsHighestProcessed ==
    /\ lastCheckedTweetId # Null =>
          /\ ReturnedIdx # {}
          /\ lastCheckedTweetId = Max({ BigInt(respLog[i].id) : i \in ReturnedIdx })
    /\ JustReturned => lastCheckedTweetId = BigInt(candidates[idx - 1].id)
    /\ ReturnedIdx # {} => lastCheckedTweetId # Null

\* C29 witness: handleTweet returned for "9" in the first cycle and for "10" in
\* the second one, whose loop then came to "9" again; the watermark is 10.
C29_Witness ==
    /\ cycles = 2
    /\ cyclePc = "loop"
    /\ candidates = << Tweet(<<1, 0>>), Tweet(<<9>>) >>
    /\ idx = 2
    /\ \E i \in ReturnedIdx, j \in ReturnedIdx :
          i < j /\ respLog[i].id = <<9>> /\ respLog[j].id = <<1, 0>>
    /\ lastCheckedTweetId = 10

\* C30: when a cycle completes without an error, the cache entry of the
\* watermark is lastCheckedTweetId as it stands at the end of the cycle (no
\* entry when the watermark was never set).
C30_CacheEqualsWatermarkAtCycleEnd ==
    [][ (cyclePc # "timer" /\ cyclePc' = "timer" /\ cycleError' = "none") =>
           cachedWatermark' = IF lastCheckedTweetId' = Null
                              THEN NoId
                              ELSE BigIntToString(lastCheckedTweetId') ]_vars

\* C30 witness: a cycle in which handleTweet returned for "10" has completed
\* without an error; the watermark is 10 and the cache entry is "10".
C30_Witness ==
    /\ cyclePc = "timer"
    /\ cycles = 1
    /\ cycleError = "none"
    /\ lastCheckedTweetId = 10
    /\ cachedWatermark = <<1, 0>>
    /\ LastLog.k = "returned"

\* C33: a step in which processTweetIfNeeded passes a candidate over (its id
\* is not above the watermark, or it has a durable record) changes nothing but
\* the position of the loop: the watermark and its cache entry, the memory
\* records and the createMemory calls, the thread and the log of the tweets
\* handed to handleTweet stay as they are.
C33_SkipChangesNothing ==
    [][ CandidateSkipped =>
           /\ UNCHANGED <<lastCheckedTweetId, cachedWatermark>>
           /\ UNCHANGED <<memories, pendingWrites, createIssued>>
           /\ UNCHANGED <<btPc, btLeaf, btCur, btDepth, btMax, thread, visited>>
           /\ UNCHANGED respLog ]_vars

\* C33 witness: in the second cycle the loop has passed "10", which has a
\* durable record from the first cycle (ended by an error, the watermark still
\* null); no second createMemory was issued and nothing was handed to handleTweet.
C33_Witness ==
    /\ cycles = 2
    /\ cyclePc = "loop"
    /\ idx = 2
    /\ candidates[1].id = <<1, 0>>
    /\ <<1, 0>> \in memories
    /\ lastCheckedTweetId = Null
    /\ createIssued[<<1, 0>>] = 1
    /\ respLog = <<>>

====
